---- MODULE Spec2Model ----
(***************************************************************************)
(* A model of FileAnalyzer (src/diff_tool_pro.py): the expansion of two    *)
(* sources into PathMaps (extract_or_walk), the per-key reconciliation     *)
(* loop of compare, and the helpers it calls (get_file_hash, is_text_file, *)
(* get_text_similarity).                                                   *)
(*                                                                         *)
(* Paths and file contents are sequences of code points / bytes, so that   *)
(* the lexicographic order of sorted(), the replace("\\", "/") of the      *)
(* walk, UTF-8 decoding and the block matcher of difflib are computed      *)
(* rather than assumed.                                                    *)
(***************************************************************************)
EXTENDS Integers, Sequences, FiniteSets, TLC

(***************************************************************************)
(* Bounds of the model.                                                    *)
(***************************************************************************)
\* the largest number of files one source holds
MaxFiles == 2
\* the largest number of entries an archive holds
MaxArchiveFiles == 1
\* the largest length of a text given to get_text_similarity on its own
MaxTextLen == 3
\* the largest number of comparisons the user starts in the window
MaxRuns == 2
\* the largest number of batches the rendering of one result takes
MaxBatches == 3
\* the largest number of files that become missing or unreadable in one run
MaxFaults == 2

(***************************************************************************)
(* Universes the inputs are drawn from.                                    *)
(***************************************************************************)
\* code points: 47 "/", 92 "\", 97 "a", 116 "t"
Slash == 47
Backslash == 92

\* raw relative paths as os.path.relpath yields them on a POSIX system:
\* "a", "a/t" (file t in directory a), "a\t" (a file whose name holds a
\* backslash) and "t"
RawPaths == { <<97>>, <<97, 47, 116>>, <<97, 92, 116>>, <<116>> }

\* file contents as byte strings: "ab", "ba" and the single byte 0xFF, which
\* is not valid UTF-8
InvalidBytes == {255}
Contents == { <<97, 98>>, <<98, 97>>, <<255>> }

Sides == {"A", "B"}

\* Python's None and a present value, as sequences of length 0 and 1
None == << >>
Some(x) == <<x>>

(***************************************************************************)
(* Small helpers.                                                          *)
(***************************************************************************)
Min(x, y) == IF x <= y THEN x ELSE y

RECURSIVE Gcd(_, _)
Gcd(x, y) == IF y = 0 THEN x ELSE Gcd(y, x % y)

\* a float of [0, 1] that is a quotient of two naturals, in lowest terms
Frac(n, d) == LET g == Gcd(n, d) IN [num |-> n \div g, den |-> d \div g]

Zero == [num |-> 0, den |-> 1]
One == [num |-> 1, den |-> 1]


(***************************************************************************)
(* Paths: normalisation and the order of sorted().                         *)
(***************************************************************************)
\* rel_path.replace("\\", "/")
Normalize(p) == [i \in 1..Len(p) |-> IF p[i] = Backslash THEN Slash ELSE p[i]]

\* Python's str order: the first differing code point decides, and a proper
\* prefix is smaller
LexLess(p, q) ==
    \E i \in 1..(Min(Len(p), Len(q)) + 1) :
        /\ \A j \in 1..(i - 1) : p[j] = q[j]
        /\ \/ i > Len(p) /\ i <= Len(q)
           \/ i <= Len(p) /\ i <= Len(q) /\ p[i] < q[i]

\* the keys in descending order (a sort with the comparison reversed)
RECURSIVE SortedKeys_Descending(_)
SortedKeys_Descending(S) ==
    IF S = {} THEN << >>
    ELSE LET m == CHOOSE x \in S : \A y \in S \ {x} : LexLess(y, x)
         IN  <<m>> \o SortedKeys_Descending(S \ {m})

\* sorted(list(all_keys))
RECURSIVE SortedKeys(_)
SortedKeys(S) ==
    IF S = {} THEN << >>
    ELSE LET m == CHOOSE x \in S : \A y \in S \ {x} : LexLess(x, y)
         IN  <<m>> \o SortedKeys(S \ {m})

\* the directory part of a raw path (everything before its last "/")
DirOf(p) ==
    LET slashes == { i \in 1..Len(p) : p[i] = Slash }
    IN  IF slashes = {} THEN << >>
        ELSE SubSeq(p, 1, (CHOOSE i \in slashes : \A j \in slashes : j <= i) - 1)

\* d1 is a proper ancestor directory of d2
IsAncestorDir(d1, d2) ==
    /\ Len(d1) < Len(d2)
    /\ SubSeq(d2, 1, Len(d1)) = d1
    /\ (d1 = << >> \/ d2[Len(d1) + 1] = Slash)

\* a directory tree cannot hold a file and a directory of the same name
ValidTree(S) ==
    \A p \in S, q \in S : ~ (p = DirOf(q) \/ IsAncestorDir(p, DirOf(q)))

(***************************************************************************)
(* Files.  A file is its bytes and its state on disk: "ok", "unreadable"   *)
(* (stat succeeds, open fails) or "missing" (stat and open both fail, as   *)
(* for a deleted file or a dangling symbolic link).                        *)
(***************************************************************************)
CanStat(f) == f.st # "missing"
CanOpen(f) == f.st = "ok"

\* os.path.getsize: the size in bytes, or None where it raises OSError
getsize(f) == IF CanStat(f) THEN Some(Len(f.content)) ELSE None

\* SHA-256 of the bytes, or None when the file cannot be read.  The digest
\* is modelled as collision free: it is the bytes themselves, wrapped.
get_file_hash(f) == IF CanOpen(f) THEN Some(f.content) ELSE None

\* mimetypes.guess_type by extension.  In the model the names ending in "t"
\* stand for the names whose extension the MIME table maps to text/*.
GuessType(path) == IF path # << >> /\ path[Len(path)] = 116 THEN Some("text/plain") ELSE None

\* a strict UTF-8 decode succeeds when no byte is invalid
DecodesStrict(bytes) == \A i \in 1..Len(bytes) : bytes[i] \notin InvalidBytes

\* decode with errors='ignore': the invalid bytes are dropped
DecodeIgnore(bytes) == SelectSeq(bytes, LAMBDA b : b \notin InvalidBytes)

is_text_file(path, f) ==
    IF GuessType(path) # None THEN TRUE
    ELSE CanOpen(f) /\ DecodesStrict(f.content)


(***************************************************************************)
(* difflib.SequenceMatcher(None, a, b).ratio() for sequences too short for *)
(* the automatic junk heuristic (fewer than 200 elements): the matching    *)
(* blocks are found by find_longest_match, applied recursively to the left *)
(* and to the right of each block.  Indices are 0-based and half-open as   *)
(* in difflib.                                                             *)
(***************************************************************************)
\* the length of the common run of a[i:ahi] and b[j:bhi]
RECURSIVE RunLen(_, _, _, _, _, _)
RunLen(a, b, i, j, ahi, bhi) ==
    IF i < ahi /\ j < bhi /\ a[i + 1] = b[j + 1]
    THEN 1 + RunLen(a, b, i + 1, j + 1, ahi, bhi)
    ELSE 0

\* the longest matching block in a[alo:ahi], b[blo:bhi]: of all the longest
\* ones the one that starts earliest in a, and of those the one that starts
\* earliest in b; (alo, blo, 0) when nothing matches
find_longest_match(a, b, alo, ahi, blo, bhi) ==
    LET cand == { <<i, j>> \in (alo..(ahi - 1)) \X (blo..(bhi - 1)) :
                    RunLen(a, b, i, j, ahi, bhi) > 0 }
    IN  IF cand = {} THEN <<alo, blo, 0>>
        ELSE LET best == CHOOSE c \in cand : \A d \in cand :
                              LET kc == RunLen(a, b, c[1], c[2], ahi, bhi)
                                  kd == RunLen(a, b, d[1], d[2], ahi, bhi)
                              IN  \/ kc > kd
                                  \/ kc = kd /\ c[1] < d[1]
                                  \/ kc = kd /\ c[1] = d[1] /\ c[2] <= d[2]
             IN  <<best[1], best[2], RunLen(a, b, best[1], best[2], ahi, bhi)>>

\* the total size of the blocks of get_matching_blocks in the given windows
RECURSIVE MatchTotal(_, _, _, _, _, _)
MatchTotal(a, b, alo, ahi, blo, bhi) ==
    LET m == find_longest_match(a, b, alo, ahi, blo, bhi)
        i == m[1]
        j == m[2]
        k == m[3]
    IN  IF k = 0 THEN 0
        ELSE k
             + (IF alo < i /\ blo < j THEN MatchTotal(a, b, alo, i, blo, j) ELSE 0)
             + (IF i + k < ahi /\ j + k < bhi
                THEN MatchTotal(a, b, i + k, ahi, j + k, bhi) ELSE 0)

\* ratio(): 2.0 * matches / length, and 1.0 when both sequences are empty
ratio(a, b) ==
    LET length == Len(a) + Len(b)
        matches == MatchTotal(a, b, 0, Len(a), 0, Len(b))
    IN  IF length > 0 THEN Frac(2 * matches, length) ELSE One

\* the similarity as a percentage (0 to 100) instead of a ratio
get_text_similarity_Percent(f1, f2) ==
    IF CanOpen(f1) /\ CanOpen(f2)
    THEN LET r == ratio(DecodeIgnore(f1.content), DecodeIgnore(f2.content))
         IN  Frac(100 * r.num, r.den)
    ELSE Zero

\* both files decoded ignoring invalid bytes, then compared; 0.0 when either
\* cannot be opened
get_text_similarity(f1, f2) ==
    IF CanOpen(f1) /\ CanOpen(f2)
    THEN ratio(DecodeIgnore(f1.content), DecodeIgnore(f2.content))
    ELSE Zero


(***************************************************************************)
(* The sources a comparison is given.  A source is a directory or a zip    *)
(* family archive, and holds a tree: a map from raw relative paths to file *)
(* contents.                                                               *)
(***************************************************************************)
Trees ==
    UNION { [S -> Contents] :
              S \in { T \in SUBSET RawPaths : Cardinality(T) <= MaxFiles /\ ValidTree(T) } }

\* the paths of the archives, as <<directory, base name>>: two archives of
\* the same base name in two directories
ArchivePaths == { <<"d1", "x.zip">>, <<"d2", "x.zip">> }

\* extract_or_walk reads the path of a directory only to walk it, so the
\* directories carry one placeholder path and are told apart by their trees
DirPath == <<"d0", "dir">>

Sources ==
    { s \in [kind : {"dir", "archive"}, tree : Trees, path : ArchivePaths \cup {DirPath}] :
        /\ s.kind = "archive" => Cardinality(DOMAIN s.tree) <= MaxArchiveFiles
        /\ s.kind = "archive" <=> s.path \in ArchivePaths }

\* one path names one archive: two archive arguments with the same path
\* hold the same tree
SamePlace(a, b) ==
    (a.kind = "archive" /\ b.kind = "archive" /\ a.path = b.path) => a.tree = b.tree

\* os.path.basename(target_path)
Basename(path) == path[2]

\* hash(target_path): the str hash of the running process.  Distinct paths
\* are given distinct hashes (the collisions of the 64-bit hash are left
\* out).
PathHash(path) == IF path = <<"d1", "x.zip">> THEN 11
                  ELSE IF path = <<"d2", "x.zip">> THEN 22 ELSE 33

\* line 64: the extraction directory under temp_dir
ExtractPath(target) == <<"extracted_", Basename(target.path), "_", PathHash(target.path)>>

\* the files of a tree as they are on disk right after the walk found them
OnDisk(tree) == [p \in DOMAIN tree |-> [content |-> tree[p], st |-> "ok"]]

EmptyMap == [p \in {} |-> << >>]

(***************************************************************************)
(* extract_or_walk.                                                        *)
(***************************************************************************)
\* the orders in which os.walk (top-down) can yield the files of a tree: the
\* files of a directory come before the files of the directories below it
WalkOrders(S) ==
    { w \in [1..Cardinality(S) -> S] :
        /\ \A i, j \in DOMAIN w : i # j => w[i] # w[j]
        /\ \A i, j \in DOMAIN w : i < j => ~ IsAncestorDir(DirOf(w[j]), DirOf(w[i])) }

\* file_map[rel_path] = full_path for the files in walk order: a later file
\* replaces an earlier one with the same normalised path
BuildMap(w) ==
    [k \in { Normalize(w[i]) : i \in DOMAIN w } |->
        w[CHOOSE i \in DOMAIN w :
            /\ Normalize(w[i]) = k
            /\ \A j \in DOMAIN w : Normalize(w[j]) = k => j <= i]]

\* the results extract_or_walk can return for a source: extracted says
\* whether the extraction of an archive succeeded (a directory is not
\* extracted, and an archive that fails to extract gives {})
extract_or_walk(target, extracted) ==
    IF target.kind = "archive" /\ ~ extracted
    THEN { EmptyMap }
    ELSE { BuildMap(w) : w \in WalkOrders(DOMAIN target.tree) }

\* the keys of side A alone
all_keys_OnlyA(fa, fb) == DOMAIN fa

\* set(files_a.keys()) | set(files_b.keys())
all_keys(fa, fb) == DOMAIN fa \cup DOMAIN fb

(***************************************************************************)
(* One iteration of the loop of compare.                                   *)
(***************************************************************************)
NewSummary == [same |-> 0, diff |-> 0, added |-> 0, deleted |-> 0, total |-> 0]

NewItem(rel_path) ==
    [path |-> rel_path, status |-> "", similarity |-> Zero,
     similarity_str |-> "0%", size_a |-> 0, size_b |-> 0, size_diff |-> 0,
     type_category |-> "unknown"]

\* f"{sim:.1%}": the ratio as a percentage with one decimal, rounded half
\* to even
FormatPercent(sim) ==
    LET q == (1000 * sim.num) \div sim.den
        r == (1000 * sim.num) % sim.den
        permille == IF 2 * r > sim.den \/ (2 * r = sim.den /\ q % 2 = 1)
                    THEN q + 1 ELSE q
    IN  ToString(permille \div 10) \o "." \o ToString(permille % 10) \o "%"

\* a file that is not there: what p_a or p_b stands for when the key is
\* absent from that side (files.get() returns None and nothing reads it)
NoFile == [content |-> << >>, st |-> "missing"]

\* the branch of the status labels: "Same" for the label of equal files,
\* "Diff" for differing ones, "Deleted" and "Added"
ClassifyBoth(item, rel_path, f_a, f_b) ==
    LET hash_a == get_file_hash(f_a)
        hash_b == get_file_hash(f_b)
        sized  == [item EXCEPT !.size_diff = item.size_b - item.size_a]
    IN  IF hash_a = hash_b
        THEN [sized EXCEPT !.status = "Same", !.type_category = "same",
                           !.similarity = One, !.similarity_str = "100%"]
        ELSE LET differs == [sized EXCEPT !.status = "Diff", !.type_category = "diff"]
             IN  IF is_text_file(rel_path, f_a) /\ is_text_file(rel_path, f_b)
                 THEN LET sim == get_text_similarity(f_a, f_b)
                      IN  [differs EXCEPT !.similarity = sim,
                                          !.similarity_str = FormatPercent(sim)]
                 ELSE [differs EXCEPT !.similarity = Zero,
                                      !.similarity_str = "HashDiff"]

\* a deleted file whose size difference has the wrong sign
ClassifyDeleted_Positive(item) ==
    [item EXCEPT !.status = "Deleted", !.type_category = "deleted",
                 !.size_diff = item.size_a]

ClassifyDeleted(item) ==
    [item EXCEPT !.status = "Deleted", !.type_category = "deleted",
                 !.size_diff = 0 - item.size_a]

ClassifyAdded(item) ==
    [item EXCEPT !.status = "Added", !.type_category = "added",
                 !.size_diff = item.size_b]

\* the record of one key, given the sizes already read
ClassifyItem(item, rel_path, in_a, in_b, f_a, f_b) ==
    IF in_a /\ in_b THEN ClassifyBoth(item, rel_path, f_a, f_b)
    ELSE IF in_a /\ ~ in_b THEN ClassifyDeleted(item)
    ELSE IF ~ in_a /\ in_b THEN ClassifyAdded(item)
    ELSE item

\* the counting with the increment of the deleted branch left out
Count_NoDeleted(summary, item) ==
    IF item.type_category \in {"same", "diff", "added"}
    THEN [summary EXCEPT ![item.type_category] = @ + 1]
    ELSE summary

\* result["summary"][...] += 1 for the category of the record
Count(summary, item) ==
    IF item.type_category \in {"same", "diff", "added", "deleted"}
    THEN [summary EXCEPT ![item.type_category] = @ + 1]
    ELSE summary


(***************************************************************************)
(* The state.                                                              *)
(***************************************************************************)
VARIABLES
    stop_event,   \* FileAnalyzer.stop_event: is the event set
    pc,           \* where the running compare is: "idle" before the call,
                  \* "walk_a", "walk_b", "keys", "loop", then "returned" or
                  \* "raised" (an exception left compare)
    path_a,       \* the arguments of compare
    path_b,
    disk,         \* the files under the scan root of each side
    extract_failed, \* the sides whose archive failed to extract
    files_a,      \* the PathMaps: normalised path -> raw path under the root
    files_b,
    keys,         \* sorted(list(all_keys))
    total_files,
    processed,
    result,       \* the result under construction, returned at the end
    iter_locals,  \* in_a, in_b, hash_a, hash_b and the text tests of each
                  \* iteration that appended a record, in the order of details
    progress,     \* the messages handed to callback_progress
    extract_path, \* the extraction directory of each side under temp_root,
                  \* None for a side that is not an archive
    faults        \* the number of files that went missing or unreadable

\* get_text_similarity applied to two text files, in both orders
VARIABLES
    text1,        \* the bytes of the two files
    text2,
    sim_12,       \* get_text_similarity(file1, file2), None until computed
    sim_21        \* get_text_similarity(file2, file1), None until computed

\* DiffApp: the window, its event loop and its worker threads
VARIABLES
    sel_a,        \* self.path_a / self.path_b hold a path
    sel_b,
    btn_compare,  \* the state of the compare button: "normal" or "disabled"
    btn_export,   \* the state of the export button
    progress_on,  \* the progress bar is packed and running
    tree,         \* the rows of the table, in order
    compare_result, \* self.compare_result: None or the last result received
    after_queue,  \* the callbacks scheduled with root.after, in posting order
    workers,      \* the comparison threads that are running
    runs,         \* the number of comparisons started
    dialog_open,  \* the error dialog of messagebox.showerror is open
    shown         \* the run whose rendering has finished since the last
                  \* start_comparison and the last result, if any

cmpvars == <<stop_event, pc, path_a, path_b, disk, extract_failed, files_a, files_b,
             keys, total_files, processed, result, iter_locals, progress,
             extract_path, faults>>

simvars == <<text1, text2, sim_12, sim_21>>

appvars == <<sel_a, sel_b, btn_compare, btn_export, progress_on, tree, compare_result,
             after_queue, workers, runs, dialog_open, shown>>

vars == <<cmpvars, simvars, appvars>>

NoSource == [kind |-> "dir", tree |-> EmptyMap, path |-> DirPath]

\* FileAnalyzer(): no comparison has been called
InitAnalyzer ==
    /\ stop_event = FALSE
    /\ pc = "idle"
    /\ path_a = NoSource
    /\ path_b = NoSource
    /\ disk = [s \in Sides |-> EmptyMap]
    /\ extract_failed = {}
    /\ files_a = EmptyMap
    /\ files_b = EmptyMap
    /\ keys = << >>
    /\ total_files = 0
    /\ processed = 0
    /\ result = [summary |-> NewSummary, details |-> << >>]
    /\ iter_locals = << >>
    /\ progress = << >>
    /\ extract_path = [s \in Sides |-> None]
    /\ faults = 0

\* no pair of text files is under comparison
InitNoTexts ==
    /\ text1 = << >>
    /\ text2 = << >>
    /\ sim_12 = None
    /\ sim_21 = None

\* DiffApp.__init__: the window as setup_ui builds it
InitApp ==
    /\ sel_a = FALSE
    /\ sel_b = FALSE
    /\ btn_compare = "normal"
    /\ btn_export = "disabled"
    /\ progress_on = FALSE
    /\ tree = << >>
    /\ compare_result = None
    /\ after_queue = << >>
    /\ workers = {}
    /\ runs = 0
    /\ dialog_open = FALSE
    /\ shown = None

Init == InitAnalyzer /\ InitNoTexts /\ InitApp

(***************************************************************************)
(* compare, in the steps another thread can interleave with.               *)
(***************************************************************************)
\* lines 82-88: the call, the fresh result and the temporary directory
Compare_Call ==
    /\ pc = "idle"
    /\ pc' = "walk_a"
    /\ \E a \in Sources, b \in Sources :
         /\ SamePlace(a, b)
         /\ path_a' = a
         /\ path_b' = b
         /\ disk' = [s \in Sides |-> OnDisk(IF s = "A" THEN a.tree ELSE b.tree)]
    /\ result' = [summary |-> NewSummary, details |-> << >>]
    /\ UNCHANGED <<stop_event, extract_failed, files_a, files_b, keys, total_files,
                   processed, iter_locals, progress, faults,
                   extract_path>>
    /\ UNCHANGED <<simvars, appvars>>

\* lines 89-90: files_a = self.extract_or_walk(path_a, temp_root)
Compare_WalkA ==
    /\ pc = "walk_a"
    /\ \E extracted \in BOOLEAN :
         /\ (path_a.kind = "dir" => extracted)
         /\ \E m \in extract_or_walk(path_a, extracted) : files_a' = m
         /\ extract_failed' = IF extracted THEN extract_failed
                              ELSE extract_failed \cup {"A"}
    /\ extract_path' = IF path_a.kind = "archive"
                       THEN [extract_path EXCEPT !["A"] = Some(ExtractPath(path_a))]
                       ELSE extract_path
    /\ progress' = Append(progress, <<"analysing A">>)
    /\ pc' = "walk_b"
    /\ UNCHANGED <<stop_event, path_a, path_b, disk, files_b, keys, total_files,
                   processed, result, iter_locals, faults>>
    /\ UNCHANGED <<simvars, appvars>>

\* lines 92-93: files_b = self.extract_or_walk(path_b, temp_root)
Compare_WalkB ==
    /\ pc = "walk_b"
    /\ \E extracted \in BOOLEAN :
         /\ (path_b.kind = "dir" => extracted)
         /\ \E m \in extract_or_walk(path_b, extracted) : files_b' = m
         /\ extract_failed' = IF extracted THEN extract_failed
                              ELSE extract_failed \cup {"B"}
    /\ extract_path' = IF path_b.kind = "archive"
                       THEN [extract_path EXCEPT !["B"] = Some(ExtractPath(path_b))]
                       ELSE extract_path
    /\ progress' = Append(progress, <<"analysing B">>)
    /\ pc' = "keys"
    /\ UNCHANGED <<stop_event, path_a, path_b, disk, files_a, keys, total_files,
                   processed, result, iter_locals, faults>>
    /\ UNCHANGED <<simvars, appvars>>

\* lines 95-101: the union of the keys, its size and its sorted list
Compare_Keys ==
    /\ pc = "keys"
    /\ total_files' = Cardinality(all_keys(files_a, files_b))
    /\ keys' = SortedKeys(all_keys(files_a, files_b))
    /\ progress' = Append(progress, <<"comparing", Cardinality(all_keys(files_a, files_b))>>)
    /\ processed' = 0
    /\ pc' = "loop"
    /\ UNCHANGED <<stop_event, path_a, path_b, disk, extract_failed, files_a, files_b,
                   result, iter_locals, faults,
                   extract_path>>
    /\ UNCHANGED <<simvars, appvars>>

\* callback_progress every 20th key
ProgressEvery == 20

\* lines 101-162: one key.  os.path.getsize is not guarded: where it raises,
\* the exception leaves compare.
Compare_Iter ==
    /\ pc = "loop"
    /\ processed < Len(keys)
    /\ LET rel_path == keys[processed + 1]
           in_a == rel_path \in DOMAIN files_a
           in_b == rel_path \in DOMAIN files_b
           f_a == IF in_a THEN disk["A"][files_a[rel_path]] ELSE NoFile
           f_b == IF in_b THEN disk["B"][files_b[rel_path]] ELSE NoFile
           raises == (in_a /\ getsize(f_a) = None) \/ (in_b /\ getsize(f_b) = None)
           item == [NewItem(rel_path) EXCEPT
                       !.size_a = IF in_a THEN getsize(f_a)[1] ELSE 0,
                       !.size_b = IF in_b THEN getsize(f_b)[1] ELSE 0]
           done == ClassifyItem(item, rel_path, in_a, in_b, f_a, f_b)
       IN  /\ processed' = processed + 1
           /\ progress' = IF (processed + 1) % ProgressEvery = 0
                          THEN Append(progress, <<"progress", processed + 1, total_files>>)
                          ELSE progress
           /\ IF raises
              THEN /\ pc' = "raised"
                   /\ UNCHANGED <<result, iter_locals>>
              ELSE /\ pc' = "loop"
                   /\ result' = [summary |-> Count(result.summary, done),
                                 details |-> Append(result.details, done)]
                   /\ iter_locals' = Append(iter_locals,
                          [in_a |-> in_a, in_b |-> in_b,
                           hash_a |-> get_file_hash(f_a), hash_b |-> get_file_hash(f_b),
                           text_a |-> is_text_file(rel_path, f_a),
                           text_b |-> is_text_file(rel_path, f_b)])
    /\ UNCHANGED <<stop_event, path_a, path_b, disk, extract_failed, files_a, files_b,
                   keys, total_files, faults,
                   extract_path>>
    /\ UNCHANGED <<simvars, appvars>>

\* lines 164-165: the loop is over
Compare_Return ==
    /\ pc = "loop"
    /\ processed = Len(keys)
    /\ result' = [result EXCEPT !.summary.total = total_files]
    /\ pc' = "returned"
    /\ UNCHANGED <<stop_event, path_a, path_b, disk, extract_failed, files_a, files_b,
                   keys, total_files, processed, iter_locals, progress, faults,
                   extract_path>>
    /\ UNCHANGED <<simvars, appvars>>

(***************************************************************************)
(* The environment of a running compare.                                   *)
(***************************************************************************)
\* another thread sets the stop event of the analyzer
SetStop ==
    /\ ~ stop_event
    /\ stop_event' = TRUE
    /\ UNCHANGED <<pc, path_a, path_b, disk, extract_failed, files_a, files_b, keys,
                   total_files, processed, result, iter_locals, progress, faults,
                   extract_path>>
    /\ UNCHANGED <<simvars, appvars>>

\* a file that the walks found goes missing (deleted, or a dangling link) or
\* unreadable before the loop reaches its key.  Nothing reads a file between
\* the walk and the iteration of its key, so the fault is placed right
\* before that iteration.
FileFault(side, raw, st) ==
    /\ pc = "loop"
    /\ processed < Len(keys)
    /\ faults < MaxFaults
    /\ raw \in DOMAIN disk[side]
    /\ disk[side][raw].st = "ok"
    /\ LET m == IF side = "A" THEN files_a ELSE files_b
       IN  keys[processed + 1] \in DOMAIN m /\ m[keys[processed + 1]] = raw
    /\ disk' = [disk EXCEPT ![side][raw].st = st]
    /\ faults' = faults + 1
    /\ UNCHANGED <<stop_event, pc, path_a, path_b, extract_failed, files_a, files_b,
                   keys, total_files, processed, result, iter_locals, progress,
                   extract_path>>
    /\ UNCHANGED <<simvars, appvars>>

Next ==
    \/ Compare_Call
    \/ Compare_WalkA
    \/ Compare_WalkB
    \/ Compare_Keys
    \/ Compare_Iter
    \/ Compare_Return
    \/ SetStop
    \/ \E side \in Sides, raw \in RawPaths, st \in {"unreadable", "missing"} :
          FileFault(side, raw, st)

Spec == Init /\ [][Next]_vars

(***************************************************************************)
(* get_text_similarity on its own: two readable text files, compared in    *)
(* both orders.                                                            *)
(***************************************************************************)
\* the texts "", "a", "b", "c", "aa", ... up to MaxTextLen letters
SimTexts == UNION { [1..n -> {97, 98, 99}] : n \in 0..MaxTextLen }

TextFile(bytes) == [content |-> bytes, st |-> "ok"]

InitSim ==
    /\ InitAnalyzer
    /\ InitApp
    /\ text1 \in SimTexts
    /\ text2 \in SimTexts
    /\ sim_12 = None
    /\ sim_21 = None

\* get_text_similarity(file1, file2)
Sim_Forward ==
    /\ sim_12 = None
    /\ sim_12' = Some(get_text_similarity(TextFile(text1), TextFile(text2)))
    /\ UNCHANGED <<text1, text2, sim_21, cmpvars, appvars>>

\* get_text_similarity(file2, file1)
Sim_Backward ==
    /\ sim_21 = None
    /\ sim_21' = Some(get_text_similarity(TextFile(text2), TextFile(text1)))
    /\ UNCHANGED <<text1, text2, sim_12, cmpvars, appvars>>

NextSim == Sim_Forward \/ Sim_Backward

SpecSim == InitSim /\ [][NextSim]_vars

(***************************************************************************)
(* DiffApp.  The window runs on the Tk event loop; start_comparison starts *)
(* a worker thread that calls analyzer.compare and hands its outcome back  *)
(* with root.after.  A result is known here by the run that produced it    *)
(* and by its number of records, and row i of the table by <<run, i>>: the *)
(* values of a row are a function of the record it is made from.  The      *)
(* label lbl_info and the progress messages, which only write that label,  *)
(* are left out.                                                           *)
(***************************************************************************)
\* line 490
batch_size == 50

\* the numbers of records of a result: none, one, and around the ends of
\* the batches
ResultSizes ==
    {0, 1} \cup UNION { {k * batch_size, k * batch_size + 1} : k \in 1..(MaxBatches - 1) }

Results == [run : 1..MaxRuns, total : ResultSizes]

NoResult == [run |-> 0, total |-> 0]

\* the rows made from the records start .. end - 1 of a result (0-based)
RowsOf(res, start, end) == [k \in 1..(end - start) |-> <<res.run, start + k - 1>>]

\* a callback scheduled with root.after(ms, fn, ...)
Callback(ms, fn, res, start) == [ms |-> ms, fn |-> fn, res |-> res, start |-> start]

\* Tk runs timers in the order of their due times: a callback can run when
\* every callback posted before it has a longer delay (and so may be due
\* later); callbacks of equal delay run in posting order
Runnable(i) ==
    /\ i \in DOMAIN after_queue
    /\ \A j \in 1..(i - 1) : after_queue[j].ms > after_queue[i].ms

Remove(q, i) == SubSeq(q, 1, i - 1) \o SubSeq(q, i + 1, Len(q))

\* browse: a path is chosen for one side
Browse_A ==
    /\ ~ sel_a
    /\ sel_a' = TRUE
    /\ UNCHANGED <<sel_b, btn_compare, btn_export, progress_on, tree, compare_result,
                   after_queue, workers, runs, dialog_open, shown, cmpvars, simvars>>

Browse_B ==
    /\ ~ sel_b
    /\ sel_b' = TRUE
    /\ UNCHANGED <<sel_a, btn_compare, btn_export, progress_on, tree, compare_result,
                   after_queue, workers, runs, dialog_open, shown, cmpvars, simvars>>

\* start_comparison with the button left enabled
Start_Comparison_NoDisable ==
    /\ btn_compare = "normal"
    /\ ~ dialog_open
    /\ sel_a /\ sel_b
    /\ runs < MaxRuns
    /\ tree' = << >>
    /\ progress_on' = TRUE
    /\ runs' = runs + 1
    /\ workers' = workers \cup {runs + 1}
    /\ shown' = None
    /\ UNCHANGED <<sel_a, sel_b, btn_compare, btn_export, compare_result, after_queue,
                   dialog_open, cmpvars, simvars>>

\* lines 450-463: the click on the compare button.  A disabled button does
\* not call its command, nor does a window that a modal dialog covers.
\* With a path missing the handler only shows a warning and returns.
Start_Comparison ==
    /\ btn_compare = "normal"
    /\ ~ dialog_open
    /\ sel_a /\ sel_b
    /\ runs < MaxRuns
    /\ btn_compare' = "disabled"
    /\ tree' = << >>
    /\ progress_on' = TRUE
    /\ runs' = runs + 1
    /\ workers' = workers \cup {runs + 1}
    /\ shown' = None
    /\ UNCHANGED <<sel_a, sel_b, btn_export, compare_result, after_queue,
                   dialog_open, cmpvars, simvars>>

\* lines 466-468: compare returned a result; the worker schedules
\* _on_finished and ends
Worker_Return(w) ==
    /\ w \in workers
    /\ \E n \in ResultSizes :
         after_queue' = Append(after_queue,
                               Callback(0, "_on_finished", [run |-> w, total |-> n], 0))
    /\ workers' = workers \ {w}
    /\ UNCHANGED <<sel_a, sel_b, btn_compare, btn_export, progress_on, tree,
                   compare_result, runs, dialog_open, shown, cmpvars, simvars>>

\* lines 469-471: compare raised; the worker schedules the error dialog and
\* _reset_ui and ends
Worker_Raise(w) ==
    /\ w \in workers
    /\ after_queue' = after_queue \o << Callback(0, "showerror", NoResult, 0),
                                        Callback(0, "_reset_ui", NoResult, 0) >>
    /\ workers' = workers \ {w}
    /\ UNCHANGED <<sel_a, sel_b, btn_compare, btn_export, progress_on, tree,
                   compare_result, runs, dialog_open, shown, cmpvars, simvars>>

\* lines 493-522: insert_batch(start_index) of the rendering of res, on the
\* table tr and the pending callbacks q
insert_batch(tr, q, res, start_index) ==
    LET end_index == Min(start_index + batch_size, res.total)
    IN  [tree |-> tr \o RowsOf(res, start_index, end_index),
         queue |-> IF end_index < res.total
                   THEN Append(q, Callback(10, "insert_batch", res, end_index))
                   ELSE q,
         finished |-> ~ (end_index < res.total)]

\* lines 473-528: _on_finished(result)
Run_on_finished(i) ==
    LET res == after_queue[i].res
        rest == Remove(after_queue, i)
        first == insert_batch(<< >>, rest, res, 0)
    IN  /\ compare_result' = Some(res)
        /\ progress_on' = FALSE
        /\ btn_compare' = "normal"
        /\ btn_export' = "normal"
        /\ IF res.total > 0
           THEN /\ tree' = first.tree
                /\ after_queue' = first.queue
                /\ shown' = IF first.finished THEN Some(res.run) ELSE None
           ELSE /\ tree' = << >>
                /\ after_queue' = rest
                /\ shown' = Some(res.run)
        /\ UNCHANGED <<sel_a, sel_b, workers, runs, dialog_open>>

\* a later batch of a rendering, run from the timer
Run_insert_batch(i) ==
    LET res == after_queue[i].res
        batch == insert_batch(tree, Remove(after_queue, i), res, after_queue[i].start)
    IN  /\ tree' = batch.tree
        /\ after_queue' = batch.queue
        /\ shown' = IF batch.finished /\ compare_result = Some(res)
                    THEN Some(res.run) ELSE shown
        /\ UNCHANGED <<sel_a, sel_b, btn_compare, btn_export, progress_on,
                       compare_result, workers, runs, dialog_open>>

\* messagebox.showerror: the dialog opens; its own event loop keeps running
\* the callbacks of the window
Run_showerror(i) ==
    /\ dialog_open' = TRUE
    /\ after_queue' = Remove(after_queue, i)
    /\ UNCHANGED <<sel_a, sel_b, btn_compare, btn_export, progress_on, tree,
                   compare_result, workers, runs, shown>>

\* lines 530-533: _reset_ui
Run_reset_ui(i) ==
    /\ progress_on' = FALSE
    /\ btn_compare' = "normal"
    /\ after_queue' = Remove(after_queue, i)
    /\ UNCHANGED <<sel_a, sel_b, btn_export, tree, compare_result, workers, runs,
                   dialog_open, shown>>

\* the event loop runs one callback that is due
EventLoop ==
    \E i \in DOMAIN after_queue :
        /\ Runnable(i)
        /\ \/ after_queue[i].fn = "_on_finished" /\ Run_on_finished(i)
           \/ after_queue[i].fn = "insert_batch" /\ Run_insert_batch(i)
           \/ after_queue[i].fn = "showerror" /\ Run_showerror(i)
           \/ after_queue[i].fn = "_reset_ui" /\ Run_reset_ui(i)
        /\ UNCHANGED <<cmpvars, simvars>>

\* the user closes the error dialog
Dismiss ==
    /\ dialog_open
    /\ dialog_open' = FALSE
    /\ UNCHANGED <<sel_a, sel_b, btn_compare, btn_export, progress_on, tree,
                   compare_result, after_queue, workers, runs, shown, cmpvars, simvars>>

\* a worker thread runs to its end
WorkerStep == \E w \in workers : Worker_Return(w) \/ Worker_Raise(w)

NextApp ==
    \/ Browse_A
    \/ Browse_B
    \/ Start_Comparison
    \/ WorkerStep
    \/ EventLoop
    \/ Dismiss

SpecApp == Init /\ [][NextApp]_vars

\* threads are scheduled and the event loop keeps running: a worker that
\* can finish does, and a callback that is due is run
SpecAppFair == Init /\ [][NextApp]_vars /\ WF_vars(WorkerStep) /\ WF_vars(EventLoop)


(***************************************************************************)
(* Properties.                                                             *)
(***************************************************************************)
Returned == pc = "returned"

Details == result.details

Summary == result.summary

Categories == {"same", "diff", "added", "deleted"}

\* the number of records of a category
NumberOf(cat) == Cardinality({ i \in DOMAIN Details : Details[i].type_category = cat })

InA(i) == Details[i].path \in DOMAIN files_a
InB(i) == Details[i].path \in DOMAIN files_b

\* C1: the details of a returned result hold exactly one record per key of
\* keys(files_a) | keys(files_b), no key missing and no key twice, and
\* summary.total is the number of those keys.
C1_ReconciliationComplete ==
    Returned =>
        /\ { Details[i].path : i \in DOMAIN Details } = DOMAIN files_a \cup DOMAIN files_b
        /\ \A i, j \in DOMAIN Details : i # j => Details[i].path # Details[j].path
        /\ Len(Details) = Cardinality(DOMAIN files_a \cup DOMAIN files_b)
        /\ Summary.total = Cardinality(DOMAIN files_a \cup DOMAIN files_b)

\* a returned result over three keys: one on both sides, one on each side only
C1_Witness ==
    /\ Returned
    /\ Len(Details) = 3
    /\ DOMAIN files_a \cap DOMAIN files_b # {}
    /\ DOMAIN files_a \ DOMAIN files_b # {}
    /\ DOMAIN files_b \ DOMAIN files_a # {}

\* C2: in a returned result every record's type_category is one of same,
\* diff, added, deleted (never "unknown"), each count of the summary is the
\* number of records of that category, and total is the sum of the counts.
C2_PartitionExhaustive ==
    Returned =>
        /\ \A i \in DOMAIN Details : Details[i].type_category \in Categories
        /\ \A cat \in Categories : Summary[cat] = NumberOf(cat)
        /\ Summary.total = Summary.same + Summary.diff + Summary.added + Summary.deleted

\* a returned result with a modified, an added and a deleted record
C2_Witness ==
    /\ Returned
    /\ Summary.diff = 1
    /\ Summary.added = 1
    /\ Summary.deleted = 1


\* what iteration i computed: the two digests and the two text tests
HashA(i) == iter_locals[i].hash_a
HashB(i) == iter_locals[i].hash_b
TextLikeBoth(i) == iter_locals[i].text_a /\ iter_locals[i].text_b

\* C3: a path present in both PathMaps for which the digest of either file
\* is unavailable (also when both are) is classified "diff", never "same".
C3_UnavailableDigestIsModified ==
    \A i \in DOMAIN Details :
        (InA(i) /\ InB(i) /\ (HashA(i) = None \/ HashB(i) = None))
            => Details[i].type_category = "diff"

\* C4: no per-file error aborts compare: a file that went missing or
\* unreadable after the walk never makes an exception leave compare.
C4_NoPerFileAbort == pc # "raised"

\* C5: every record classified "same" is present in both PathMaps, has
\* size_a = size_b and size_diff = 0, and two available, equal digests.
C5_SameImpliesIdentical ==
    \A i \in DOMAIN Details :
        Details[i].type_category = "same" =>
            /\ InA(i) /\ InB(i)
            /\ Details[i].size_a = Details[i].size_b
            /\ Details[i].size_diff = 0
            /\ HashA(i) # None /\ HashB(i) # None
            /\ HashA(i) = HashB(i)

\* the order of two paths as strings, by their first code points and then
\* by the rest
RECURSIVE PathBefore(_, _)
PathBefore(p, q) ==
    IF q = << >> THEN FALSE
    ELSE IF p = << >> THEN TRUE
    ELSE IF Head(p) # Head(q) THEN Head(p) < Head(q)
    ELSE PathBefore(Tail(p), Tail(q))

\* C6: the records of a returned result are strictly ascending by path, in
\* the lexicographic order of the normalised path strings.
C6_StrictlyAscending ==
    Returned =>
        \A i, j \in DOMAIN Details : i < j => PathBefore(Details[i].path, Details[j].path)

\* a returned result with three records, where a path and a longer path
\* that starts with it both occur
C6_Witness ==
    /\ Returned
    /\ Len(Details) = 3
    /\ \E i, j \in DOMAIN Details :
          /\ Len(Details[i].path) < Len(Details[j].path)
          /\ SubSeq(Details[j].path, 1, Len(Details[i].path)) = Details[i].path

\* C7: a key only in A gives "deleted" with size_b = 0 and size_diff =
\* -size_a; a key only in B gives "added" with size_a = 0 and size_diff =
\* +size_b; a key in both gives size_diff = size_b - size_a and "same" or
\* "diff".
C7_ClassificationBySide ==
    \A i \in DOMAIN Details :
        /\ (InA(i) /\ ~ InB(i)) =>
              /\ Details[i].type_category = "deleted"
              /\ Details[i].size_b = 0
              /\ Details[i].size_diff = 0 - Details[i].size_a
        /\ (~ InA(i) /\ InB(i)) =>
              /\ Details[i].type_category = "added"
              /\ Details[i].size_a = 0
              /\ Details[i].size_diff = Details[i].size_b
        /\ (InA(i) /\ InB(i)) =>
              /\ Details[i].type_category \in {"same", "diff"}
              /\ Details[i].size_diff = Details[i].size_b - Details[i].size_a

\* a returned result with a deleted and an added record of sizes other than
\* 0, and a record present on both sides whose sizes differ
C7_Witness ==
    /\ Returned
    /\ \E i \in DOMAIN Details : InA(i) /\ ~ InB(i) /\ Details[i].size_a > 0
    /\ \E i \in DOMAIN Details : ~ InA(i) /\ InB(i) /\ Details[i].size_b > 0
    /\ \E i \in DOMAIN Details : InA(i) /\ InB(i) /\ Details[i].size_a # Details[i].size_b

\* C8: when the extraction of one source fails, that side's PathMap is
\* empty and compare returns normally: every file of the other side is
\* "added" (side A failed) or "deleted" (side B failed), and summary.added
\* or summary.deleted is the other side's number of files.
C8_ExtractionFailureDegrades ==
    (pc \in {"loop", "returned", "raised"} /\ extract_failed # {}) =>
        /\ pc # "raised"
        /\ "A" \in extract_failed => files_a = EmptyMap
        /\ "B" \in extract_failed => files_b = EmptyMap
        /\ (Returned /\ extract_failed = {"A"}) =>
              /\ \A i \in DOMAIN Details : Details[i].type_category = "added"
              /\ Summary.added = Cardinality(DOMAIN files_b)
        /\ (Returned /\ extract_failed = {"B"}) =>
              /\ \A i \in DOMAIN Details : Details[i].type_category = "deleted"
              /\ Summary.deleted = Cardinality(DOMAIN files_a)

InUnitInterval(sim) == sim.den > 0 /\ 0 <= sim.num /\ sim.num <= sim.den

\* C9: every record's similarity is in [0.0, 1.0]; it is 1.0 for a "same"
\* record and 0.0 for an "added" record, a "deleted" record and a "diff"
\* record of which a side is not text-like; only a "diff" record with both
\* sides text-like carries a computed ratio.
C9_SimilarityRange ==
    \A i \in DOMAIN Details :
        /\ InUnitInterval(Details[i].similarity)
        /\ Details[i].type_category = "same" => Details[i].similarity = One
        /\ Details[i].type_category \in {"added", "deleted"} => Details[i].similarity = Zero
        /\ (Details[i].type_category = "diff" /\ ~ TextLikeBoth(i))
              => Details[i].similarity = Zero
        /\ Details[i].similarity \notin {Zero, One}
              => (Details[i].type_category = "diff" /\ TextLikeBoth(i))

\* a returned result with a "diff" record of two text files whose ratio is
\* strictly between 0 and 1, and a "diff" record with a side that is not text
C9_Witness ==
    /\ Returned
    /\ \E i \in DOMAIN Details :
          /\ Details[i].type_category = "diff"
          /\ TextLikeBoth(i)
          /\ Details[i].similarity \notin {Zero, One}
    /\ \E i \in DOMAIN Details :
          /\ Details[i].type_category = "diff"
          /\ ~ TextLikeBoth(i)

\* C10: once stop_event is set while compare is in its loop, the loop
\* observes it between keys and classifies no further key.
C10_StopObservedBetweenKeys ==
    [][(stop_event /\ pc = "loop") => result'.details = result.details]_vars

\* C11: the extraction subdirectories never collide: the two archive
\* sources of one comparison get different subdirectories of the scratch
\* root (so the walk of one side never scans what the other expansion
\* extracted).
C11_ExtractionDirsDistinct ==
    (extract_path["A"] # None /\ extract_path["B"] # None)
        => extract_path["A"] # extract_path["B"]

\* C12: get_text_similarity is symmetric: for all texts X and Y the ratio of
\* (X, Y) is the ratio of (Y, X).
C12_SimilaritySymmetric ==
    (sim_12 # None /\ sim_21 # None) => sim_12 = sim_21

\* C13: once the batched rendering of the most recent result has finished,
\* the table holds exactly one row per record of compare_result, in record
\* order, whatever the user and the timers did in between.
C13_TableShowsLatestResult ==
    shown # None =>
        /\ compare_result # None
        /\ tree = RowsOf(compare_result[1], 0, compare_result[1].total)

\* the step re-enables the compare button
ReEnabled == btn_compare = "disabled" /\ btn_compare' = "normal"

\* C14: at most one comparison worker runs at any time; the compare button
\* is enabled only while no worker runs, it is re-enabled only by a
\* callback of a worker that has ended (_on_finished, which calls
\* _reset_ui, or the _reset_ui of the error path), and every started worker
\* leads to the button being enabled again.
C14_SingleWorker ==
    /\ [](Cardinality(workers) <= 1)
    /\ [](btn_compare = "normal" => workers = {})
    /\ [][ReEnabled =>
            /\ workers = {}
            /\ \E i \in DOMAIN after_queue :
                  /\ Runnable(i)
                  /\ after_queue[i].fn \in {"_on_finished", "_reset_ui"}
                  /\ after_queue[i].res.run \in {0, runs}]_vars
    /\ (workers # {} ~> btn_compare = "normal")

\* a second comparison is running after the first one gave its result
C14_Witness ==
    /\ runs = 2
    /\ workers = {2}
    /\ btn_compare = "disabled"
    /\ compare_result # None

====
